---- MODULE Spec2Model ----
(***************************************************************************)
(* Label service: the label composition engine of slootfeey/label-service. *)
(*                                                                         *)
(* The repository holds several revisions of one Express service.  A       *)
(* revision is named by the file and the position of its LabelGenerator    *)
(* class:                                                                  *)
(*   "server_1"   src/server.js          lines   1-394                     *)
(*   "server_2"   src/server.js          lines 396-753                     *)
(*   "part002_1"  src/unnamed/part_002   lines   1-332                     *)
(*   "part005"    src/unnamed/part_005                                     *)
(*   "part000"    src/unnamed/part_000                                     *)
(*   "part003"    src/unnamed/part_003                                     *)
(*   "part004"    src/unnamed/part_004                                     *)
(* Strings are sequences of one-character strings.  A JavaScript value is  *)
(* a record [t, s]: t is "null" (null or undefined), "str" or "num", and s *)
(* is the string itself, or the decimal digits of a non-negative integer.  *)
(***************************************************************************)
EXTENDS Integers, Sequences, FiniteSets, TLC

VARIABLES
  bcRev,      \* generateBarcode alone: the revision called
  bcData,     \* generateBarcode alone: its argument
  bcOut,      \* generateBarcode alone: what the call did
  geoRev,     \* placement alone: the revision whose renderer draws
  geoElem,    \* placement alone: the element drawn
  geoGrid,    \* placement alone: the point of the element looked at, as grid indices
  geoOut,     \* placement alone: where that point lands
  b64Bytes,   \* base64ToBuffer alone: the bytes that were encoded
  b64Form,    \* base64ToBuffer alone: how the string handed in was made of them
  b64Out,     \* base64ToBuffer alone: the string after replace() and the bytes returned
  config,     \* the fields of the process-wide generator
  rev,        \* the revision of the service that is running
  body,       \* per request: req.body {orderData, marketplaceLabel}
  pc,         \* per request: the position of its handler / createCompleteLabelPack
  merged,     \* per request: the pages of mergedPdf
  products,   \* per request: productsToProcess
  idx,        \* per request: index of the product being processed
  copy,       \* per request: sticker copies made so far for that product
  sticker,    \* per request: stickerPdf, the sticker document last rendered
  collected,  \* per request: allStickerPdfs (part_002)
  genLog,     \* per request: the code generator calls made, in order
  renders,    \* per request: the product index of every renderer call, in order
  error,      \* per request: the message of the error thrown, "" when none
  response    \* per request: the HTTP response sent

barcodeVars == <<bcRev, bcData, bcOut>>

geometryVars == <<geoRev, geoElem, geoGrid, geoOut>>

base64Vars == <<b64Bytes, b64Form, b64Out>>

inputVars == <<rev, body>>

packVars == <<pc, merged, products, idx, copy, sticker, collected, genLog, renders, error, response>>

vars == <<bcRev, bcData, bcOut, geoRev, geoElem, geoGrid, geoOut, b64Bytes, b64Form, b64Out, config,
          rev, body, pc, merged, products, idx, copy, sticker, collected, genLog, renders, error,
          response>>

(***************************************************************************)
(* Characters and strings                                                  *)
(***************************************************************************)
Digits10 == <<"0", "1", "2", "3", "4", "5", "6", "7", "8", "9">>

DigitSet == {Digits10[i] : i \in 1..10}

DigitChar(d) == Digits10[d + 1]

DigitVal(c) == CHOOSE d \in 0..9 : Digits10[d + 1] = c

\* the characters /\s/ matches, of those the inputs use
Whitespace == {" ", "\t"}

\* /^\d+$/.test(s): one or more characters, all of them decimal digits
TestDigits(s) == Len(s) >= 1 /\ \A i \in 1..Len(s) : s[i] \in DigitSet

IsWs(c) == c \in Whitespace

\* s.replace(/\s/g, '')
StripWs(s) == SelectSeq(s, LAMBDA c : ~IsWs(c))

JsNull == [t |-> "null", s |-> <<>>]

JsStr(s) == [t |-> "str", s |-> s]

JsNum(s) == [t |-> "num", s |-> s]

\* JavaScript truthiness: null, undefined, '' and 0 are falsy
Truthy(v) ==
  CASE v.t = "null" -> FALSE
    [] v.t = "str" -> v.s # <<>>
    [] v.t = "num" -> v.s # <<"0">>

\* String(v || '')
StringOrEmpty(v) == IF Truthy(v) THEN v.s ELSE <<>>

(***************************************************************************)
(* The EAN13 encoder (JsBarcode, format "EAN13"): an external component.   *)
(* It takes 12 digits and appends the check digit, or 13 digits whose last *)
(* digit is the check digit; anything else is refused with an exception.   *)
(***************************************************************************)
RECURSIVE WeightedSum(_, _)
WeightedSum(s, i) ==
  IF i > 12 THEN 0
  ELSE (IF i % 2 = 0 THEN 3 * DigitVal(s[i]) ELSE DigitVal(s[i])) + WeightedSum(s, i + 1)

EAN13Checksum(s) == (10 - (WeightedSum(s, 1) % 10)) % 10

EAN13Valid(s) ==
  /\ TestDigits(s)
  /\ \/ Len(s) = 12
     \/ Len(s) = 13 /\ DigitVal(s[13]) = EAN13Checksum(s)

\* the 13 digits the bars encode
EAN13Encoded(s) == IF Len(s) = 12 THEN Append(s, DigitChar(EAN13Checksum(s))) ELSE s

(***************************************************************************)
(* generateBarcode                                                         *)
(***************************************************************************)
Placeholder12 == <<"1", "2", "3", "4", "5", "6", "7", "8", "9", "0", "1", "2">>

Placeholder13 == Append(Placeholder12, "8")

BarcodeRevisions == {"server_1", "part002_1", "part005"}

\* let barcodeData = String(data || '').replace(/\s/g, '')
CleanBarcodeData(data) == StripWs(StringOrEmpty(data))

InvalidEAN13Data(s) == Len(s) < 12 \/ Len(s) > 13 \/ ~TestDigits(s)

\* the value of barcodeData when JsBarcode is called
BarcodePayload(r, data) ==
  LET barcodeData == CleanBarcodeData(data) IN
  IF r = "part005"
  THEN IF InvalidEAN13Data(barcodeData) THEN Placeholder13 ELSE barcodeData
  ELSE IF Len(barcodeData) = 13 /\ TestDigits(barcodeData)
       THEN SubSeq(barcodeData, 1, 12)
       ELSE IF InvalidEAN13Data(barcodeData) THEN Placeholder12 ELSE barcodeData

\* console.warn(`Invalid EAN-13 data ...`) was called
BarcodeWarned(r, data) ==
  LET barcodeData == CleanBarcodeData(data) IN
  IF r = "part005"
  THEN InvalidEAN13Data(barcodeData)
  ELSE ~(Len(barcodeData) = 13 /\ TestDigits(barcodeData)) /\ InvalidEAN13Data(barcodeData)

\* the try block: an encoder exception is rethrown as "Barcode generation failed"
generateBarcode(r, data) ==
  LET payload == BarcodePayload(r, data) IN
  [called |-> TRUE,
   payload |-> payload,
   warned |-> BarcodeWarned(r, data),
   result |-> IF EAN13Valid(payload) THEN "png" ELSE "error",
   message |-> IF EAN13Valid(payload) THEN "" ELSE "Barcode generation failed"]

(***************************************************************************)
(* Inputs of generateBarcode                                               *)
(***************************************************************************)
MaxBarcodeLen == 14

Pattern(n, a, b) == [i \in 1..n |-> DigitChar((a * i + b) % 10)]

Scenario13 == <<"5", "9", "0", "1", "2", "3", "4", "1", "2", "3", "4", "5", "7">>

DigitStrings ==
  {Pattern(n, a, b) : n \in 0..MaxBarcodeLen, a \in {1, 3}, b \in {0, 5}} \cup {Scenario13}

InsertAt(s, i, c) == SubSeq(s, 1, i) \o <<c>> \o SubSeq(s, i + 1, Len(s))

\* a digit string with one character replaced by a letter, a sign or a blank
Corrupted ==
  UNION {{[s EXCEPT ![i] = c] : i \in {1, Len(s)}, c \in {"x", "!", " "}} :
         s \in DigitStrings \ {<<>>}}

\* a digit string with a blank or a tab inside or after it
Spaced ==
  UNION {{InsertAt(s, i, c) : i \in {Len(s) \div 2, Len(s)}, c \in Whitespace} :
         s \in DigitStrings}

BarcodeInputs ==
  {JsNull}
    \cup {JsStr(s) : s \in DigitStrings \cup Corrupted \cup Spaced}
    \cup {JsNum(s) : s \in {d \in DigitStrings : d # <<>> /\ d[1] # "0"} \cup {<<"0">>}}

(***************************************************************************)
(* Requests: orderData and marketplaceLabel                                *)
(***************************************************************************)
Revisions == {"server_1", "server_2", "part002_1", "part005", "part000", "part003", "part004"}

Requests == {"a", "b"}

MaxProducts == 2

MaxQuantity == 2

MaxMarketPages == 2

Uzum == <<"u", "z", "u", "m">>

Yandex == <<"y", "a", "n", "d", "e", "x">>

DefaultMarket == <<"d", "e", "f", "a", "u", "l", "t">>

UzumUpperSpaced == <<" ", "U", "Z", "U", "M", " ">>

OrderA1 == <<"A", "1">>

FallbackQR == <<"2", "0", "0", "0", "0", "0", "0", "0", "9", "9", "0", "6", "4">>

FallbackSku == <<"S", "K", "U", "-", "T", "E", "S", "T", "-", "0", "0", "1">>

BadBarcode == <<"b", "a", "d", "!", "!">>

\* a quantity field: absent, or a number
NoQuantity == [has |-> FALSE, n |-> 0]

Quantity(n) == [has |-> TRUE, n |-> n]

Quantities == {NoQuantity} \cup {Quantity(n) : n \in -1..MaxQuantity}

\* the product at position k of a products array: odd positions carry a barcode,
\* even positions carry none
ProductAt(k, q) ==
  [product_barcode |-> IF k % 2 = 1 THEN JsStr(Scenario13) ELSE JsNull,
   product_code |-> JsStr(<<"S", "K", "U", "-", DigitChar(k)>>),
   quantity |-> q]

ProductLists ==
  UNION {{[k \in 1..n |-> ProductAt(k, qs[k])] : qs \in [1..n -> Quantities]} :
         n \in 0..MaxProducts}

\* orderData.products: absent, an array, or a truthy value that is no array
NoProducts == [t |-> "absent", items |-> <<>>]

ProductsArray(items) == [t |-> "array", items |-> items]

ProductsOther == [t |-> "other", items |-> <<>>]

Order(id, market, prods, barcode, code) ==
  [order_id |-> id, marketplace |-> market, products |-> prods,
   product_barcode |-> barcode, product_code |-> code]

LegacyCode == JsStr(<<"S", "K", "U", "-", "L">>)

\* orders that exercise the assembly: every product list, both named marketplaces
AssemblyOrders ==
  {Order(JsStr(OrderA1), JsStr(m), ProductsArray(items), b, LegacyCode) :
     m \in {Uzum, Yandex}, items \in ProductLists, b \in {JsNull, JsStr(Scenario13)}}

\* marketplace "default", one product of quantity 2
DefaultOrder ==
  Order(JsStr(OrderA1), JsStr(DefaultMarket), ProductsArray(<<ProductAt(1, Quantity(2))>>),
        JsNull, LegacyCode)

\* orders of the legacy single-product shape, and orders the validation is about
EdgeOrders ==
  {Order(id, m, ps, b, LegacyCode) :
     id \in {JsStr(OrderA1), JsNull},
     m \in {JsStr(Uzum), JsStr(Yandex), JsStr(DefaultMarket), JsStr(UzumUpperSpaced), JsNull},
     ps \in {NoProducts, ProductsOther, ProductsArray(<<>>),
             ProductsArray(<<ProductAt(1, NoQuantity)>>)},
     b \in {JsNull, JsStr(Scenario13), JsStr(BadBarcode)}}
    \cup {DefaultOrder}

Orders == AssemblyOrders \cup EdgeOrders

\* marketplaceLabel: a string (base64, wrapped or bare), a Buffer, a value of another
\* type, or missing; parseable says whether its bytes are a PDF document, of `pages` pages
Label(t, parseable, pages) == [t |-> t, parseable |-> parseable, pages |-> pages]

Labels ==
  {Label("string", TRUE, m) : m \in 1..MaxMarketPages}
    \cup {Label("buffer", TRUE, MaxMarketPages), Label("string", FALSE, 0),
          Label("buffer", FALSE, 0), Label("other", FALSE, 0), Label("missing", FALSE, 0)}

(***************************************************************************)
(* String helpers of the pipeline                                          *)
(***************************************************************************)
Upper == <<"U", "Z", "M", "Y", "A", "N", "D", "E", "X", "F", "L", "T">>

Lower == <<"u", "z", "m", "y", "a", "n", "d", "e", "x", "f", "l", "t">>

UpperChar(c) ==
  IF \E i \in 1..Len(Lower) : Lower[i] = c
  THEN Upper[CHOOSE i \in 1..Len(Lower) : Lower[i] = c]
  ELSE c

\* s.toUpperCase()
ToUpperCase(s) == [i \in 1..Len(s) |-> UpperChar(s[i])]

LowerChar(c) ==
  IF \E i \in 1..Len(Upper) : Upper[i] = c
  THEN Lower[CHOOSE i \in 1..Len(Upper) : Upper[i] = c]
  ELSE c

\* s.toLowerCase()
ToLowerCase(s) == [i \in 1..Len(s) |-> LowerChar(s[i])]

RECURSIVE TrimStart(_)
TrimStart(s) == IF s # <<>> /\ IsWs(s[1]) THEN TrimStart(Tail(s)) ELSE s

RECURSIVE TrimEnd(_)
TrimEnd(s) == IF s # <<>> /\ IsWs(s[Len(s)]) THEN TrimEnd(SubSeq(s, 1, Len(s) - 1)) ELSE s

\* s.trim()
Trim(s) == TrimEnd(TrimStart(s))

(***************************************************************************)
(* base64ToBuffer.  A byte is a number in 0..255; a string is a sequence of *)
(* one-character strings.                                                  *)
(***************************************************************************)
\* the characters of a string, one by one
Chars(s) == [i \in 1..Len(s) |-> SubSeq(s, i, i)]

Base64Alphabet == Chars("ABCDEFGHIJKLMNOPQRSTUVWXYZabcdefghijklmnopqrstuvwxyz0123456789+/")

Marker == Chars("data:application/pdf;base64,")

StartsWith(s, m) == Len(s) >= Len(m) /\ SubSeq(s, 1, Len(m)) = m

\* the places at which m occurs in s
Occurrences(s, m) == {i \in 1..(Len(s) - Len(m) + 1) : SubSeq(s, i, i + Len(m) - 1) = m}

\* replace() with the pattern not anchored: the first occurrence goes, wherever it is
StripMarkerAnywhere(s) ==
  IF Occurrences(s, Marker) = {} THEN s
  ELSE LET i == CHOOSE j \in Occurrences(s, Marker) : \A k \in Occurrences(s, Marker) : j <= k
       IN SubSeq(s, 1, i - 1) \o SubSeq(s, i + Len(Marker), Len(s))

\* base64String.replace(/^data:application\/pdf;base64,/, '')
StripMarker(s) == IF StartsWith(s, Marker) THEN SubSeq(s, Len(Marker) + 1, Len(s)) ELSE s

\* the value of a character of the alphabet
Sextet(c) == (CHOOSE i \in 1..64 : Base64Alphabet[i] = c) - 1

IsBase64Char(c) == \E i \in 1..64 : Base64Alphabet[i] = c

\* the string up to its first "="
RECURSIVE BeforePadding(_)
BeforePadding(s) ==
  IF s = <<>> \/ Head(s) = "=" THEN <<>> ELSE <<Head(s)>> \o BeforePadding(Tail(s))

\* groups of four characters give three bytes; a rest of three gives two bytes, a rest
\* of two gives one, a rest of one gives none
RECURSIVE DecodeSextets(_)
DecodeSextets(v) ==
  IF Len(v) >= 4
  THEN LET n == v[1] * 262144 + v[2] * 4096 + v[3] * 64 + v[4]
       IN <<n \div 65536, (n \div 256) % 256, n % 256>> \o DecodeSextets(SubSeq(v, 5, Len(v)))
  ELSE IF Len(v) = 3
  THEN LET n == v[1] * 4096 + v[2] * 64 + v[3] IN <<n \div 1024, (n \div 4) % 256>>
  ELSE IF Len(v) = 2
  THEN <<(v[1] * 64 + v[2]) \div 16>>
  ELSE <<>>

\* Buffer.from(s, 'base64'): characters outside the alphabet are passed over, the
\* decoding ends at the first "="
Base64Decode(s) ==
  LET kept == SelectSeq(BeforePadding(s), IsBase64Char)
  IN DecodeSextets([i \in 1..Len(kept) |-> Sextet(kept[i])])

\* base64ToBuffer(base64String)
base64ToBuffer(s) == Base64Decode(StripMarker(s))

\* the base64 encoding of bytes (what the caller of the service does)
RECURSIVE Base64Encode(_)
Base64Encode(b) ==
  IF Len(b) >= 3
  THEN LET n == b[1] * 65536 + b[2] * 256 + b[3]
       IN <<Base64Alphabet[(n \div 262144) + 1], Base64Alphabet[((n \div 4096) % 64) + 1],
            Base64Alphabet[((n \div 64) % 64) + 1], Base64Alphabet[(n % 64) + 1]>>
            \o Base64Encode(SubSeq(b, 4, Len(b)))
  ELSE IF Len(b) = 2
  THEN LET n == (b[1] * 256 + b[2]) * 4
       IN <<Base64Alphabet[(n \div 4096) + 1], Base64Alphabet[((n \div 64) % 64) + 1],
            Base64Alphabet[(n % 64) + 1], "=">>
  ELSE IF Len(b) = 1
  THEN <<Base64Alphabet[(b[1] \div 4) + 1], Base64Alphabet[((b[1] % 4) * 16) + 1], "=", "=">>
  ELSE <<>>

MaxBytes == 3

ByteValues == {0, 77, 250, 255}

ByteStrings == UNION {[1..n -> ByteValues] : n \in 0..MaxBytes}

\* the strings handed to base64ToBuffer: the encoding alone, the encoding after the
\* marker, the same with a blank before the marker, the marker twice
Forms == {"bare", "wrapped", "inside", "twice"}

Base64Input(b, form) ==
  LET e == Base64Encode(b) IN
  CASE form = "bare" -> e
    [] form = "wrapped" -> Marker \o e
    [] form = "inside" -> <<" ">> \o Marker \o e
    [] OTHER -> Marker \o Marker \o e

NotDecoded == [called |-> FALSE, stripped |-> <<>>, bytes |-> <<>>]

Base64Idle ==
  /\ b64Bytes = <<>>
  /\ b64Form = "bare"
  /\ b64Out = NotDecoded

(***************************************************************************)
(* The generator's configuration.  Lengths are integers, in units of       *)
(* 1/100000 point, so that 1 mm = 2.83465 points is exact.                 *)
(***************************************************************************)
Pt == 100000

Mm == 283465

\* the fields the constructor assigns
Configuration(r) ==
  CASE r \in {"server_1", "server_2", "part002_1", "part005"} ->
         [stickerWidth |-> 58 * Mm, stickerHeight |-> 40 * Mm, qrCodeTargetSize |-> 65 * Pt,
          barcodeTargetWidth |-> 90 * Pt, barcodeTargetHeight |-> 35 * Pt,
          barcodeNumberFontSize |-> 8 * Pt, skuTextFontSize |-> 9 * Pt,
          kidslandFontSize |-> 7 * Pt, padding |-> 4 * Pt, barcodePadding |-> 2 * Pt]
    [] r \in {"part000", "part004"} ->
         [physicalWidthMm |-> 58, physicalHeightMm |-> 40,
          pageWidth |-> 40 * Mm, pageHeight |-> 58 * Mm, qrSize |-> 40 * Pt,
          barcodeWidth |-> 70 * Pt, barcodeHeight |-> 30 * Pt, skuFontSize |-> 8 * Pt,
          kidslandFontSize |-> 7 * Pt, padding |-> 4 * Pt]
    [] r = "part002_2" ->
         [stickerWidth |-> 58 * Mm, stickerHeight |-> 40 * Mm, qrCodeTargetSize |-> 50 * Pt,
          barcodeTargetWidth |-> 80 * Pt, barcodeTargetHeight |-> 35 * Pt,
          textFontSize |-> 10 * Pt, padding |-> 5 * Pt]
    [] OTHER -> [stickerWidth |-> 58 * Mm, stickerHeight |-> 40 * Mm]

(***************************************************************************)
(* Placement of rotated elements (PDFKit).  The page origin is the top     *)
(* left corner and y grows downwards.  A point of a rectangle is named by  *)
(* grid indices (i, j) in 0..GridN; every coordinate of a point is kept    *)
(* multiplied by GridN, which keeps the arithmetic in the integers.        *)
(***************************************************************************)
GridN == 4

Grid == (0..GridN) \X (0..GridN)

Half(x) == x \div 2

Rect(x, y, w, h) == [x |-> x, y |-> y, w |-> w, h |-> h]

\* the point of a rectangle at grid indices g
Sample(rect, g) == <<GridN * rect.x + rect.w * g[1], GridN * rect.y + rect.h * g[2]>>

TranslateBy(x, y) == [op |-> "translate", x |-> x, y |-> y, deg |-> 0]

RotateBy(deg) == [op |-> "rotate", x |-> 0, y |-> 0, deg |-> deg]

\* doc.rotate(angle) about the origin: the matrix (cos, sin, -sin, cos)
RotatePoint(deg, p) ==
  CASE deg = 90 -> <<-p[2], p[1]>>
    [] deg = 180 -> <<-p[1], -p[2]>>
    [] deg = 270 -> <<p[2], -p[1]>>
    [] OTHER -> p

ApplyOne(f, p) ==
  IF f.op = "translate"
  THEN <<p[1] + GridN * f.x, p[2] + GridN * f.y>>
  ELSE RotatePoint(f.deg, p)

\* the transforms in the order they were called: the last one called acts first
RECURSIVE ApplyAll(_, _)
ApplyAll(fs, p) == IF fs = <<>> THEN p ELSE ApplyOne(Head(fs), ApplyAll(Tail(fs), p))

GeometryRevisions == {"part001", "part002_1", "part002_2", "part000", "part004", "server_1", "server_2"}

\* the vertically centred blocks: the QR code with what is stacked on it, and the stack
\* of SKU line, bars and digits
BlockElements == {"qrBlock", "codeBlock"}

\* "page" is the portrait sticker page as rotatePageToLandscape draws it
Elements(r) ==
  CASE r \in {"part000", "part004"} -> {"qr", "sku", "barcode", "page"}
    [] r = "part002_2" -> {"qr", "sku", "barcode"}
    [] r = "part002_1" -> {"qr", "barcode"} \cup BlockElements
    [] r = "server_1" -> BlockElements
    [] r = "server_2" -> {"qrBlock"}
    [] OTHER -> {"qr", "barcode"}

Placing(transforms, rect, box, canvas, deg) ==
  [transforms |-> transforms, rect |-> rect, box |-> box, canvas |-> canvas, deg |-> deg]

\* part_001: the barcode, drawn vertical in a 60 point wide area at the right edge
BarcodePart001 ==
  LET c == Configuration("part001")
      padding == 5 * Pt
      barcodeX == c.stickerWidth - padding - 60 * Pt
      barcodeY == padding
      height == c.stickerHeight - padding * 2 - 20 * Pt
  IN Placing(<<TranslateBy(barcodeX + 30 * Pt, barcodeY), RotateBy(90)>>,
             Rect(-30 * Pt, 0, 60 * Pt, height),
             Rect(barcodeX, barcodeY, 60 * Pt, height),
             Rect(0, 0, c.stickerWidth, c.stickerHeight), 90)

\* part_002, second class: the barcode, rotated, vertically centred at the right edge
BarcodePart002 ==
  LET c == Configuration("part002_2")
      finalBarcodeWidth == c.barcodeTargetHeight
      barcodeFinalX == c.stickerWidth - finalBarcodeWidth - c.padding
      finalBarcodeHeight == c.barcodeTargetWidth
      barcodeFinalY == Half(c.stickerHeight) - Half(finalBarcodeHeight)
  IN Placing(<<TranslateBy(barcodeFinalX, barcodeFinalY), RotateBy(90)>>,
             Rect(0, -finalBarcodeWidth, c.barcodeTargetWidth, c.barcodeTargetHeight),
             Rect(barcodeFinalX, barcodeFinalY, finalBarcodeWidth, finalBarcodeHeight),
             Rect(0, 0, c.stickerWidth, c.stickerHeight), 90)

\* part_000 and part_004: the SKU line, rotated about the centre of the column between
\* the QR code and the barcode; lineTop is the y the text is drawn at
SkuPortrait(r) ==
  LET c == Configuration(r)
      qrX == c.padding
      textX == qrX + c.qrSize + c.padding * 2
      textWidth == c.pageWidth - textX - c.barcodeWidth - c.padding * 2
      lineH == (c.skuFontSize * 12) \div 10
      lineTop == IF r = "part000" THEN -Half(lineH) ELSE -6 * Pt
  IN Placing(<<TranslateBy(textX + Half(textWidth), Half(c.pageHeight)), RotateBy(90)>>,
             Rect(-Half(textWidth), lineTop, textWidth, lineH),
             Rect(textX, 0, textWidth, c.pageHeight),
             Rect(0, 0, c.pageWidth, c.pageHeight), 90)

\* part_000 and part_004: the barcode, turned upside down about its centre
BarcodePortrait(r) ==
  LET c == Configuration(r)
      bcX == c.pageWidth - c.barcodeWidth - c.padding
      bcY == Half(c.pageHeight - c.barcodeHeight)
      bcCx == bcX + Half(c.barcodeWidth)
      bcCy == bcY + Half(c.barcodeHeight)
  IN Placing(<<TranslateBy(bcCx, bcCy), RotateBy(180),
               TranslateBy(-Half(c.barcodeWidth), -Half(c.barcodeHeight))>>,
             Rect(0, 0, c.barcodeWidth, c.barcodeHeight),
             Rect(bcX, bcY, c.barcodeWidth, c.barcodeHeight),
             Rect(0, 0, c.pageWidth, c.pageHeight), 180)

\* a rectangle drawn with no transform in force
Unrotated(rect, canvas) == Placing(<<>>, rect, rect, canvas, 0)

\* the page the renderer draws on
Canvas(r) ==
  LET c == Configuration(r) IN
  IF r \in {"part000", "part004"} THEN Rect(0, 0, c.pageWidth, c.pageHeight)
  ELSE Rect(0, 0, c.stickerWidth, c.stickerHeight)

\* the QR image: part_001 at (padding, padding), 30 mm square; part_002 centred with the
\* kidsland caption counted below it; part_000 and part_004 centred on the page height
QrPlacement(r) ==
  LET c == Configuration(r) IN
  CASE r = "part001" -> Unrotated(Rect(5 * Pt, 5 * Pt, 30 * Mm, 30 * Mm), Canvas(r))
    [] r \in {"part002_1", "part002_2"} ->
         LET kidslandTextHeight == IF r = "part002_1" THEN 10 * Pt ELSE 8 * Pt
             totalLeftBlockHeight == c.qrCodeTargetSize + c.padding + kidslandTextHeight
             qrY == Half(c.stickerHeight) - Half(totalLeftBlockHeight)
         IN Unrotated(Rect(c.padding, qrY, c.qrCodeTargetSize, c.qrCodeTargetSize), Canvas(r))
    [] OTHER ->
         Unrotated(Rect(c.padding, Half(c.pageHeight - c.qrSize), c.qrSize, c.qrSize), Canvas(r))

\* fontSize * 1.2
LineHeight(fontSize) == (fontSize * 12) \div 10

\* part_002, first class: the right column (SKU line, bars, digits) and the bars in it
RightBlock ==
  LET c == Configuration("part002_1")
      skuTextHeight == LineHeight(c.skuTextFontSize)
      gap1 == 4 * Pt
      gap2 == 2 * Pt
      numberTextHeight == LineHeight(c.barcodeNumberFontSize)
      rightBlockHeight == skuTextHeight + gap1 + c.barcodeTargetHeight + gap2 + numberTextHeight
      rightBlockX == c.padding + c.qrCodeTargetSize + c.padding
      rightBlockWidth == c.stickerWidth - rightBlockX - c.barcodePadding
      rightBlockY == Half(c.stickerHeight) - Half(rightBlockHeight)
      barcodeY == rightBlockY + skuTextHeight + gap1
      barcodeX == rightBlockX + Half(rightBlockWidth) - Half(c.barcodeTargetWidth)
      numberTextY == barcodeY + c.barcodeTargetHeight + gap2
  IN [summed |-> rightBlockHeight, top |-> rightBlockY, bottom |-> numberTextY + numberTextHeight,
      bars |-> Rect(barcodeX, barcodeY, c.barcodeTargetWidth, c.barcodeTargetHeight)]

\* part_002, second class: the product text between the QR code and the barcode
TextPart002 ==
  LET c == Configuration("part002_2")
      barcodeFinalX == c.stickerWidth - c.barcodeTargetHeight - c.padding
      textX == c.padding + c.qrCodeTargetSize + c.padding
      textWidth == barcodeFinalX - textX - c.padding
      textTotalHeight == LineHeight(c.textFontSize) * 2
      textY == Half(c.stickerHeight) - Half(textTotalHeight)
  IN Placing(<<>>, Rect(textX, textY, textWidth, textTotalHeight),
             Rect(textX, 0, textWidth, c.stickerHeight), Canvas("part002_2"), 0)

Placement(r, e) ==
  CASE e = "qr" -> QrPlacement(r)
    [] r = "part001" -> BarcodePart001
    [] r = "part002_1" -> Unrotated(RightBlock.bars, Canvas(r))
    [] r = "part002_2" /\ e = "barcode" -> BarcodePart002
    [] r = "part002_2" /\ e = "sku" -> TextPart002
    [] e = "sku" -> SkuPortrait(r)
    [] OTHER -> BarcodePortrait(r)

\* where the point g of the drawn rectangle lands on the page
PlacedAt(r, e, g) == ApplyAll(Placement(r, e).transforms, Sample(Placement(r, e).rect, g))

\* server.js, first class: the one column of createUzumSticker (code = QR, square) and
\* of createYandexSticker (code = bars): SKU line, code, digits, kidsland
Column(codeHeight) ==
  LET c == Configuration("server_1")
      skuTextHeight == LineHeight(c.skuTextFontSize)
      gap1 == 4 * Pt
      gap2 == 2 * Pt
      numberTextHeight == LineHeight(c.barcodeNumberFontSize)
      kidslandTextHeight == 10 * Pt
      totalBlockHeight == skuTextHeight + gap1 + codeHeight + gap2 + numberTextHeight
                            + c.padding + kidslandTextHeight
      blockY == Half(c.stickerHeight) - Half(totalBlockHeight)
      codeY == blockY + skuTextHeight + gap1
      numberY == codeY + codeHeight + gap2
      kidslandY == numberY + numberTextHeight + c.padding
  IN [summed |-> totalBlockHeight, top |-> blockY, bottom |-> kidslandY + kidslandTextHeight]

\* part_002, first class, and server.js, second class (uzum): the QR code with kidsland
\* under it; the sum counts this.padding between them, the caption is put 2 below
QrWithCaption(r) ==
  LET c == Configuration(r)
      kidslandTextHeight == 10 * Pt
      totalBlockHeight == c.qrCodeTargetSize + c.padding + kidslandTextHeight
      qrY == Half(c.stickerHeight) - Half(totalBlockHeight)
      kidslandY == qrY + c.qrCodeTargetSize + 2 * Pt
  IN [summed |-> totalBlockHeight, top |-> qrY, bottom |-> kidslandY + kidslandTextHeight]

\* the height summed for centring a block, and where its first element starts and its
\* last element ends
VerticalBlock(r, e) ==
  LET c == Configuration(r) IN
  CASE r = "server_1" ->
         Column(IF e = "qrBlock" THEN c.qrCodeTargetSize ELSE c.barcodeTargetHeight)
    [] e = "qrBlock" -> QrWithCaption(r)
    [] OTHER -> [summed |-> RightBlock.summed, top |-> RightBlock.top, bottom |-> RightBlock.bottom]

Min(a, b) == IF a <= b THEN a ELSE b

Max(a, b) == IF a >= b THEN a ELSE b

\* the rectangle an element covers on the page, its sides multiplied by GridN
Landed(r, e) ==
  LET p == PlacedAt(r, e, <<0, 0>>)
      q == PlacedAt(r, e, <<GridN, GridN>>)
  IN [x1 |-> Min(p[1], q[1]), x2 |-> Max(p[1], q[1]), y1 |-> Min(p[2], q[2]), y2 |-> Max(p[2], q[2])]

\* two landed rectangles share inner points
Overlap(a, b) == a.x1 < b.x2 /\ b.x1 < a.x2 /\ a.y1 < b.y2 /\ b.y1 < a.y2

\* rotatePageToLandscape: the page added and the options given to drawPage; part_004
\* gives no rotate option
PageDrawing(r) ==
  LET c == Configuration(r)
      w == c.physicalWidthMm * Mm
      h == c.physicalHeightMm * Mm
  IN [target |-> Rect(0, 0, w, h),
      source |-> Rect(0, 0, c.pageWidth, c.pageHeight),
      x |-> w,
      y |-> 0,
      width |-> c.pageHeight,
      height |-> c.pageWidth,
      deg |-> IF r = "part000" THEN 90 ELSE 0]

\* whether the call of drawPage throws: part_000 names PDFLibDegrees, which is declared
\* nowhere; part_004 hands drawPage a copied page where the library takes an embedded page
DrawPageThrows(r) == IF r = "part000" THEN {TRUE} ELSE {TRUE, FALSE}

\* drawPage: the source page is scaled to width x height, rotated about its origin and
\* moved to (x, y); the point g of the source page lands here
PageImage(r, g) ==
  LET d == PageDrawing(r)
      scaled == <<d.width * g[1], d.height * g[2]>>
      turned == RotatePoint(d.deg, scaled)
  IN <<turned[1] + GridN * d.x, turned[2] + GridN * d.y>>

\* p, a point multiplied by GridN, lies in the rectangle
Inside(p, rect) ==
  /\ GridN * rect.x <= p[1]
  /\ p[1] <= GridN * (rect.x + rect.w)
  /\ GridN * rect.y <= p[2]
  /\ p[2] <= GridN * (rect.y + rect.h)

(***************************************************************************)
(* createCompleteLabelPack: the pure parts                                 *)
(***************************************************************************)
LegacyProduct(o, q) ==
  [product_barcode |-> o.product_barcode, product_code |-> o.product_code, quantity |-> q]

HasProductList(o) == o.products.t = "array" /\ Len(o.products.items) > 0

\* productsToProcess
ProductsToProcess(r, o) ==
  CASE r \in {"server_1", "server_2"} ->
         IF HasProductList(o) THEN o.products.items
         ELSE IF Truthy(o.product_barcode) THEN <<LegacyProduct(o, NoQuantity)>> ELSE <<>>
    [] r = "part002_1" ->
         IF HasProductList(o) THEN o.products.items
         ELSE IF Truthy(o.product_barcode) THEN <<LegacyProduct(o, Quantity(2))>> ELSE <<>>
    [] r = "part005" ->
         IF o.products.t = "array" THEN o.products.items ELSE <<LegacyProduct(o, NoQuantity)>>
    [] OTHER -> <<LegacyProduct(o, NoQuantity)>>

\* the quantity test without its "> 0"
QuantityIfTruthy(q) == IF q.has /\ q.n # 0 THEN q.n ELSE 2

\* product.quantity && product.quantity > 0 ? product.quantity : 2
QuantityOrDefault(q) == IF q.has /\ q.n # 0 /\ q.n > 0 THEN q.n ELSE 2

\* the number of sticker pages appended for one product
Copies(r, p) ==
  CASE r \in {"part002_1", "part005"} -> QuantityOrDefault(p.quantity)
    [] r = "part003" -> 1
    [] OTHER -> 2

\* the revisions that call the renderer once per copy
RendersPerCopy(r) == r \in {"part002_1", "part005"}

\* the marketplace compared as it was sent, blanks removed
MarketplaceExact(o) == Trim(StringOrEmpty(o.marketplace))

\* (orderData.marketplace || '').toLowerCase().trim()
MarketplaceOf(o) == Trim(ToLowerCase(StringOrEmpty(o.marketplace)))

ValidMarketplace(m) == m = Uzum \/ m = Yandex

\* server.js, second class: orderData.marketplace || 'uzum', then
\* (marketplace || '').toLowerCase().trim() in the renderer
MarketplaceLower(o) ==
  Trim(ToLowerCase(IF Truthy(o.marketplace) THEN o.marketplace.s ELSE Uzum))

\* the marketplace a revision selects the layout by
SelectedMarketplace(r, o) == IF r = "server_2" THEN MarketplaceLower(o) ELSE MarketplaceOf(o)

\* the layout a revision draws for an order
Variant(r, o) ==
  CASE r \in {"server_1", "server_2"} ->
         IF SelectedMarketplace(r, o) = Uzum THEN "uzum" ELSE "yandex"
    [] r \in {"part002_1", "part005"} -> "both"
    [] r \in {"part000", "part004"} -> "portrait"
    [] OTHER -> "a4"

\* data.product_barcode || '2000000099064'
QRPayload(p) == IF Truthy(p.product_barcode) THEN p.product_barcode.s ELSE FallbackQR

\* the number printed with no fallback
DisplayedNumberRaw(p) == p.product_barcode.s

\* createUzumSticker: const displayedBarcode = productData.product_barcode || '2000000099064'
DisplayedNumber(p) == IF Truthy(p.product_barcode) THEN p.product_barcode.s ELSE FallbackQR

\* JSON.stringify({order, sku}): an undefined member is left out
JsonPayload(o, p) ==
  <<"{order:">> \o StringOrEmpty(o.order_id)
    \o (IF p.product_barcode.t = "null" THEN <<>> ELSE <<",sku:">> \o p.product_barcode.s)
    \o <<"}">>

\* threw is the message of the exception the encoder threw in this call, "" if none;
\* settled is the call's place in the order the calls settled in, 0 while it is pending
Call(kind, format, payload, encodable) ==
  [kind |-> kind, format |-> format, payload |-> payload, encodable |-> encodable, threw |-> "",
   settled |-> 0]

\* await after await: each call settles before the next one starts
SettledInOrder(calls) == [k \in 1..Len(calls) |-> [calls[k] EXCEPT !.settled = k]]

\* one of the calls has settled
AnySettled(calls) == \E k \in 1..Len(calls) : calls[k].settled > 0

\* Promise.all resolves when every call has settled
AllSettled(calls) == \A k \in 1..Len(calls) : calls[k].settled > 0

\* the message of the exception an encoder library throws (QRCode.toBuffer, JsBarcode)
EncoderMessage(kind) == IF kind = "QR" THEN "No input text" ELSE "is not a valid input"

\* the revisions whose generators wrap the encoder call in try/catch; part_000 and
\* part_004 call the encoder bare
CatchesEncoder(r) == r \notin {"part000", "part004"}

\* catch (err) { throw new Error(`... generation failed: ${err.message}`) }, or the
\* encoder's exception itself where nothing catches it
GenerationError(r, kind) ==
  IF CatchesEncoder(r)
  THEN (IF kind = "QR" THEN "QR code generation failed: " ELSE "Barcode generation failed: ")
         \o EncoderMessage(kind)
  ELSE EncoderMessage(kind)

\* the generator calls of one renderer call, in call order; encodable says whether the
\* encoder accepts the payload
GeneratorCalls(r, o, p) ==
  LET ean == BarcodePayload(r, p.product_barcode)
      raw == p.product_barcode.s
      qr == QRPayload(p)
      id == o.order_id.s
  IN CASE r = "server_1" ->
            IF MarketplaceOf(o) = Uzum
            THEN <<Call("QR", "QR", qr, qr # <<>>)>>
            ELSE <<Call("barcode", "EAN13", ean, EAN13Valid(ean))>>
       [] r = "server_2" ->
            IF MarketplaceLower(o) = Uzum THEN <<Call("QR", "QR", qr, qr # <<>>)>> ELSE <<>>
       [] r \in {"part002_1", "part005"} ->
            <<Call("barcode", "EAN13", ean, EAN13Valid(ean)), Call("QR", "QR", qr, qr # <<>>)>>
       [] r = "part000" ->
            <<Call("QR", "QR", JsonPayload(o, p), TRUE), Call("barcode", "CODE128", raw, raw # <<>>)>>
       [] r = "part003" ->
            <<Call("barcode", "CODE128", raw, raw # <<>>), Call("QR", "QR", id, id # <<>>)>>
       [] OTHER ->
            <<Call("QR", "SVG", JsonPayload(o, p), TRUE),
              Call("barcode", "SVG", raw, p.product_barcode.t = "str")>>

\* Promise.all starts every generator; awaits in sequence stop at the first failure
StartsAllGenerators(r) == r = "part000"

\* productData.product_code || 'SKU-TEST-001'
SkuText(r, p) ==
  IF Truthy(p.product_code) THEN p.product_code.s
  ELSE CASE r = "part003" -> <<>>
         [] r = "part004" -> SubSeq(FallbackSku, 1, 8)
         [] OTHER -> FallbackSku

\* the digits printed under the bars
DisplayedBarcode(r, p) ==
  LET b == p.product_barcode IN
  CASE r \in {"server_1", "server_2", "part002_1"} ->
         IF Truthy(b) /\ b.t = "str" /\ Len(b.s) >= 12 /\ TestDigits(b.s) THEN b.s ELSE Placeholder13
    [] r = "part005" -> IF Truthy(b) THEN b.s ELSE Placeholder13
    [] OTHER -> b.s

NoContent == [variant |-> "", qr |-> <<>>, bars |-> <<>>, sku |-> <<>>, digits |-> <<>>]

\* what one rendered sticker page shows
StickerContent(r, o, p) ==
  LET v == Variant(r, o)
      calls == GeneratorCalls(r, o, p)
      qrs == SelectSeq(calls, LAMBDA c : c.kind = "QR")
      bars == SelectSeq(calls, LAMBDA c : c.kind = "barcode")
  IN [variant |-> v,
      qr |-> IF qrs = <<>> THEN <<>> ELSE qrs[1].payload,
      bars |-> IF bars = <<>> THEN <<>> ELSE bars[1].payload,
      sku |-> SkuText(r, p),
      digits |-> IF v = "uzum" THEN DisplayedNumber(p)
                 ELSE IF v = "yandex" \/ v = "both" THEN DisplayedBarcode(r, p)
                 ELSE <<>>]

MarketPage(k) == [kind |-> "market", index |-> k, product |-> 0, render |-> 0, content |-> NoContent]

\* the size of the page that carries the sticker into the merged document: the PDFKit
\* page of the renderer, the page added by rotatePageToLandscape, or part_003's
\* addPage([595, 842])
PageSize(r) ==
  LET c == Configuration(r) IN
  CASE r = "part003" -> <<595 * Pt, 842 * Pt>>
    [] r \in {"part000", "part004"} -> <<c.physicalWidthMm * Mm, c.physicalHeightMm * Mm>>
    [] OTHER -> <<c.stickerWidth, c.stickerHeight>>

\* the number of times the sticker is drawn on that page: part_003 draws the image twice
StickersPerPage(r) == IF r = "part003" THEN 2 ELSE 1

StickerPage(s) ==
  [kind |-> "sticker", index |-> 0, product |-> s.product, render |-> s.render, content |-> s.content,
   size |-> PageSize(rev), stickers |-> StickersPerPage(rev)]

NoSticker == [has |-> FALSE, product |-> 0, render |-> 0, content |-> NoContent]

Rendered(i, n, c) == [has |-> TRUE, product |-> i, render |-> n, content |-> c]

NoResponse == [status |-> 0, hasPdf |-> FALSE, pdf |-> <<>>, message |-> ""]

(***************************************************************************)
(* The HTTP handler POST /generate-label                                   *)
(***************************************************************************)
\* part_000 holds the class alone: its caller is not in the source
HasHandler(r) == r # "part000"

\* the checks that answer 400
HandlerRejects(r, b) ==
  LET o == b.orderData IN
  \/ b.marketplaceLabel.t = "missing"
  \/ CASE r = "server_1" ->
            \/ ~Truthy(o.order_id)
            \/ (o.products.t = "absent" /\ ~Truthy(o.product_barcode))
            \/ ~Truthy(o.marketplace)
       [] r = "server_2" ->
            \/ ~Truthy(o.order_id)
            \/ (o.products.t = "absent" /\ ~Truthy(o.product_barcode))
            \/ ~Truthy(o.marketplace)
       [] r = "part002_1" ->
            \/ ~Truthy(o.order_id)
            \/ (o.products.t = "absent" /\ ~Truthy(o.product_barcode))
       [] r = "part005" ->
            (~Truthy(o.order_id) \/ ~HasProductList(o)) /\ ~Truthy(o.product_barcode)
       [] r = "part003" -> ~Truthy(o.order_id) \/ ~Truthy(o.product_barcode)
       [] OTHER -> FALSE

Response(status, hasPdf, pdf, message) ==
  [status |-> status, hasPdf |-> hasPdf, pdf |-> pdf, message |-> message]

\* a catch block that sends what was merged so far
HandlerResponsePartial(returned, doc, message) ==
  IF returned THEN Response(200, TRUE, doc, "") ELSE Response(500, doc # <<>>, doc, message)

\* res.json({success, pdf, filename}) after the await, or the catch block's 500
HandlerResponse(returned, doc, message) ==
  IF returned THEN Response(200, TRUE, doc, "") ELSE Response(500, FALSE, <<>>, message)

(***************************************************************************)
(* Control flow of createCompleteLabelPack, per revision                   *)
(***************************************************************************)
SingleProduct(r) == r \in {"part000", "part003", "part004"}

FirstStep(r) == IF r = "part003" THEN "generate" ELSE "check"

AcceptsLabelType(r, l) == l.t = "string" \/ l.t = "buffer" \/ r = "part004"

\* a load that resolves for any bytes
LoadsAnyBytes(l) == l.t = "string" \/ l.t = "buffer"

\* PDFLibDocument.load resolves for the bytes of a PDF document alone
Loads(l) == (l.t = "string" \/ l.t = "buffer") /\ l.parseable

\* the error of PDFLibDocument.load: bytes that are no PDF document, or an argument
\* that is no byte array
LoadError(l) ==
  IF l.t = "string" \/ l.t = "buffer"
  THEN "Failed to parse PDF document"
  ELSE "pdf must be of type string or Uint8Array or ArrayBuffer"

AfterLoad(r) ==
  CASE r \in {"part000", "part004"} -> "generate"
    [] r = "part003" -> "embed"
    [] OTHER -> "market"

AfterMarket(r) == IF SingleProduct(r) THEN "copy" ELSE "prepare"

\* only the first page is copied
FirstPageOnly(l) == <<1>>

\* marketplacePdf.getPageIndices(), counted from 1
PageIndices(l) == [i \in 1..l.pages |-> i]

AfterRender(r) ==
  CASE r \in {"part000", "part004"} -> "rotate"
    [] r = "part003" -> "check"
    [] OTHER -> "copy"

CurrentProduct(r) ==
  IF SingleProduct(rev) THEN LegacyProduct(body[r].orderData, NoQuantity) ELSE products[r][idx[r]]

Set(f, r, v) == [f EXCEPT ![r] = v]

Throw(r, message) ==
  /\ pc' = Set(pc, r, "threw")
  /\ error' = Set(error, r, message)

\* the position after one more copy of the current product's sticker is made
AfterCopy(r, made) ==
  IF made < Copies(rev, CurrentProduct(r))
  THEN [pc |-> IF RendersPerCopy(rev) THEN "generate" ELSE "copy", idx |-> idx[r], copy |-> made]
  ELSE IF ~SingleProduct(rev) /\ idx[r] < Len(products[r])
       THEN [pc |-> "generate", idx |-> idx[r] + 1, copy |-> 0]
       ELSE [pc |-> IF rev = "part002_1" THEN "merge" ELSE "save", idx |-> idx[r], copy |-> made]

\* the handler's checks, up to the call of createCompleteLabelPack
Validate(r) ==
  /\ pc[r] = "recv"
  /\ IF HasHandler(rev) /\ HandlerRejects(rev, body[r])
     THEN /\ response' = Set(response, r, Response(400, FALSE, <<>>, "Missing required fields"))
          /\ pc' = Set(pc, r, "done")
     ELSE /\ pc' = Set(pc, r, FirstStep(rev))
          /\ UNCHANGED response
  /\ UNCHANGED <<barcodeVars, base64Vars, geometryVars, config, inputVars, merged, products, idx, copy, sticker, collected,
                 genLog, renders, error>>

\* typeof marketplaceLabel === 'string' / Buffer.isBuffer(marketplaceLabel) / throw
CheckLabel(r) ==
  /\ pc[r] = "check"
  /\ IF AcceptsLabelType(rev, body[r].marketplaceLabel)
     THEN pc' = Set(pc, r, "load") /\ UNCHANGED error
     ELSE Throw(r, "Invalid marketplace label format")
  /\ UNCHANGED <<barcodeVars, base64Vars, geometryVars, config, inputVars, merged, products, idx, copy, sticker, collected,
                 genLog, renders, response>>

\* await PDFLibDocument.load(marketplaceLabelBuffer)
LoadLabel(r) ==
  /\ pc[r] = "load"
  /\ IF Loads(body[r].marketplaceLabel)
     THEN pc' = Set(pc, r, AfterLoad(rev)) /\ UNCHANGED error
     ELSE Throw(r, LoadError(body[r].marketplaceLabel))
  /\ UNCHANGED <<barcodeVars, base64Vars, geometryVars, config, inputVars, merged, products, idx, copy, sticker, collected,
                 genLog, renders, response>>

\* mergedPdf.copyPages(marketplacePdf, ...), then addPage for each page in turn
CopyMarketPages(r) ==
  /\ pc[r] = "market"
  /\ \/ /\ merged[r] = <<>>
        /\ Throw(r, "copyPages failed")
        /\ UNCHANGED merged
     \/ LET indices == PageIndices(body[r].marketplaceLabel)
            k == Len(merged[r]) + 1
        IN /\ merged' = Set(merged, r, IF k <= Len(indices)
                                       THEN Append(merged[r], MarketPage(indices[k]))
                                       ELSE merged[r])
           /\ pc' = Set(pc, r, IF k >= Len(indices) THEN AfterMarket(rev) ELSE "market")
           /\ UNCHANGED error
  /\ UNCHANGED <<barcodeVars, base64Vars, geometryVars, config, inputVars, products, idx, copy, sticker, collected,
                 genLog, renders, response>>

\* productsToProcess and, in server.js, the check of the marketplace
PrepareProducts(r) ==
  LET ps == ProductsToProcess(rev, body[r].orderData) IN
  /\ pc[r] = "prepare"
  /\ products' = Set(products, r, ps)
  /\ IF rev = "server_1" /\ ~ValidMarketplace(MarketplaceOf(body[r].orderData))
     THEN Throw(r, "Invalid marketplace") /\ UNCHANGED <<idx, copy>>
     ELSE /\ pc' = Set(pc, r, IF ps = <<>> THEN "save" ELSE "generate")
          /\ idx' = Set(idx, r, 1)
          /\ copy' = Set(copy, r, 0)
          /\ UNCHANGED error
  /\ UNCHANGED <<barcodeVars, base64Vars, geometryVars, config, inputVars, merged, sticker, collected, genLog, renders, response>>

\* server.js, second class: the renderer refuses a marketplace that is neither uzum
\* nor yandex, before any generator runs
RendererRefuses(r, o) == r = "server_2" /\ ~ValidMarketplace(MarketplaceLower(o))

\* server.js, second class: `if (useBarcode)` reads an identifier that is declared
\* nowhere, a ReferenceError
ReadsUndeclared(r) == r = "server_2"

\* the renderer is called and runs its code generators
Generate(r) ==
  LET p == CurrentProduct(r)
      calls == GeneratorCalls(rev, body[r].orderData, p)
      n == Len(calls)
  IN /\ pc[r] = "generate"
     /\ renders' = Set(renders, r, Append(renders[r], IF SingleProduct(rev) THEN 1 ELSE idx[r]))
     /\ \/ /\ RendererRefuses(rev, body[r].orderData)
           /\ Throw(r, "Invalid marketplace")
           /\ UNCHANGED genLog
        \/ /\ StartsAllGenerators(rev)
           /\ genLog' = Set(genLog, r, genLog[r] \o calls)
           /\ pc' = Set(pc, r, "await")
           /\ UNCHANGED error
        \/ /\ ~RendererRefuses(rev, body[r].orderData)
           /\ ~StartsAllGenerators(rev)
           /\ \A k \in 1..n : calls[k].encodable
           /\ genLog' = Set(genLog, r, genLog[r] \o SettledInOrder(calls))
           /\ IF ReadsUndeclared(rev)
              THEN Throw(r, "useBarcode is not defined")
              ELSE pc' = Set(pc, r, "finish") /\ UNCHANGED error
        \/ \E f \in 1..n :
             /\ ~RendererRefuses(rev, body[r].orderData)
             /\ ~StartsAllGenerators(rev)
             /\ \A k \in 1..(f - 1) : calls[k].encodable
             /\ LET failed == [SettledInOrder(calls) EXCEPT ![f].threw = EncoderMessage(calls[f].kind)]
                IN genLog' = Set(genLog, r, genLog[r] \o SubSeq(failed, 1, f))
             /\ Throw(r, GenerationError(rev, calls[f].kind))
     /\ UNCHANGED <<barcodeVars, base64Vars, geometryVars, config, inputVars, merged, products, idx, copy, sticker, collected,
                    response>>

\* part_000: await Promise.all([generateQRCode, generateBarcode]).  One pending call
\* settles, in any order; the first rejection rejects the renderer, the calls still
\* pending settle unobserved; when every call has resolved the drawing starts
AwaitAll(r) ==
  LET log == genLog[r]
      order == 1 + Cardinality({j \in 1..Len(log) : log[j].settled > 0})
  IN /\ pc[r] \in {"await", "threw"}
     /\ \E k \in 1..Len(log) :
          /\ log[k].settled = 0
          /\ \/ /\ log[k].encodable
                /\ LET after == [log EXCEPT ![k].settled = order] IN
                   /\ genLog' = Set(genLog, r, after)
                   /\ pc' = Set(pc, r, IF pc[r] = "await" /\ AllSettled(after) THEN "finish" ELSE pc[r])
                   /\ UNCHANGED error
             \/ /\ genLog' = Set(genLog, r, [log EXCEPT ![k].settled = order,
                                                        ![k].threw = EncoderMessage(log[k].kind)])
                /\ IF pc[r] = "await"
                   THEN Throw(r, GenerationError(rev, log[k].kind))
                   ELSE UNCHANGED <<pc, error>>
     /\ UNCHANGED <<barcodeVars, base64Vars, geometryVars, config, inputVars, merged, products, idx, copy, sticker,
                    collected, renders, response>>

\* the rendered sticker kept in one slot of the generator, whichever request made it
StoreStickerShared(st, r, s) == [q \in Requests |-> s]

\* stickerPdf is a local of the call: each request holds its own rendered sticker
StoreSticker(st, r, s) == [st EXCEPT ![r] = s]

\* the elements are drawn and doc.end() is called; the promise settles on 'end' (after
\* the rendered bytes are loaded again) or on 'error'
FinishSticker(r) ==
  LET i == IF SingleProduct(rev) THEN 1 ELSE idx[r]
      s == Rendered(i, Len(renders[r]), StickerContent(rev, body[r].orderData, CurrentProduct(r)))
      next == AfterCopy(r, copy[r] + 1)
  IN /\ pc[r] = "finish"
     /\ \/ /\ sticker' = StoreSticker(sticker, r, s)
           /\ IF rev = "part002_1"
              THEN /\ collected' = Set(collected, r, Append(collected[r], s))
                   /\ pc' = Set(pc, r, next.pc)
                   /\ idx' = Set(idx, r, next.idx)
                   /\ copy' = Set(copy, r, next.copy)
              ELSE /\ pc' = Set(pc, r, AfterRender(rev))
                   /\ UNCHANGED <<collected, idx, copy>>
           /\ UNCHANGED error
        \/ /\ \E m \in {"draw failed", "pdf stream error"} : Throw(r, m)
           /\ UNCHANGED <<sticker, collected, idx, copy>>
        \/ /\ rev # "part003"
           /\ pc' = Set(pc, r, "hung")
           /\ UNCHANGED <<sticker, collected, idx, copy, error>>
     /\ UNCHANGED <<barcodeVars, base64Vars, geometryVars, config, inputVars, merged, products, genLog, renders, response>>

\* rotatePageToLandscape, then the rotated bytes are loaded again
Rotate(r) ==
  /\ pc[r] = "rotate"
  /\ \/ /\ rev = "part004"
        /\ pc' = Set(pc, r, "market")
        /\ UNCHANGED error
     \/ Throw(r, IF rev = "part000" THEN "PDFLibDegrees is not defined" ELSE "drawPage failed")
  /\ UNCHANGED <<barcodeVars, base64Vars, geometryVars, config, inputVars, merged, products, idx, copy, sticker, collected,
                 genLog, renders, response>>

\* part_003: the sticker bytes are embedded as a PNG image and drawn twice on an A4 page
Embed(r) ==
  /\ pc[r] = "embed"
  /\ \/ pc' = Set(pc, r, "market") /\ UNCHANGED error
     \/ Throw(r, "embedPng failed")
  /\ UNCHANGED <<barcodeVars, base64Vars, geometryVars, config, inputVars, merged, products, idx, copy, sticker, collected,
                 genLog, renders, response>>

\* const [page] = await mergedPdf.copyPages(stickerPdf, [0]); mergedPdf.addPage(page)
CopySticker(r) ==
  LET next == AfterCopy(r, copy[r] + 1) IN
  /\ pc[r] = "copy"
  /\ \/ /\ merged' = Set(merged, r, Append(merged[r], StickerPage(sticker[r])))
        /\ pc' = Set(pc, r, next.pc)
        /\ idx' = Set(idx, r, next.idx)
        /\ copy' = Set(copy, r, next.copy)
        /\ UNCHANGED error
     \/ /\ Throw(r, "copyPages failed")
        /\ UNCHANGED <<merged, idx, copy>>
  /\ UNCHANGED <<barcodeVars, base64Vars, geometryVars, config, inputVars, products, sticker, collected, genLog, renders, response>>

StickerCount(pages) == Len(SelectSeq(pages, LAMBDA g : g.kind = "sticker"))

\* part_002, stage 2: the collected sticker documents are merged in order
MergeCollected(r) ==
  LET k == StickerCount(merged[r]) IN
  /\ pc[r] = "merge"
  /\ \/ /\ merged' = Set(merged, r, Append(merged[r], StickerPage(collected[r][k + 1])))
        /\ pc' = Set(pc, r, IF k + 1 = Len(collected[r]) THEN "save" ELSE "merge")
        /\ UNCHANGED error
     \/ /\ Throw(r, "copyPages failed")
        /\ UNCHANGED merged
  /\ UNCHANGED <<barcodeVars, base64Vars, geometryVars, config, inputVars, products, idx, copy, sticker, collected, genLog,
                 renders, response>>

\* await mergedPdf.save(); return Buffer.from(mergedPdfBytes)
Save(r) ==
  /\ pc[r] = "save"
  /\ \/ pc' = Set(pc, r, "returned") /\ UNCHANGED error
     \/ Throw(r, "save failed")
  /\ UNCHANGED <<barcodeVars, base64Vars, geometryVars, config, inputVars, merged, products, idx, copy, sticker, collected,
                 genLog, renders, response>>

\* the handler continues after the await: res.json(...) or the catch block
Respond(r) ==
  /\ HasHandler(rev)
  /\ pc[r] \in {"returned", "threw"}
  /\ response' = Set(response, r, HandlerResponse(pc[r] = "returned", merged[r], error[r]))
  /\ pc' = Set(pc, r, "done")
  /\ UNCHANGED <<barcodeVars, base64Vars, geometryVars, config, inputVars, merged, products, idx, copy, sticker, collected,
                 genLog, renders, error>>

(***************************************************************************)
(* Specifications                                                          *)
(***************************************************************************)
NotCalled == [called |-> FALSE, payload |-> <<>>, warned |-> FALSE, result |-> "", message |-> ""]

Idle(p) == [r \in Requests |-> p]

\* an order of the legacy single-product shape, and the same order with the product in
\* a products array
IsLegacyShape(o) == ~HasProductList(o) /\ Truthy(o.product_barcode)

Twin(o) == [o EXCEPT !.products = ProductsArray(<<LegacyProduct(o, NoQuantity)>>)]

Body(o, l) == [orderData |-> o, marketplaceLabel |-> l]

NotPlaced == [placed |-> FALSE, threw |-> FALSE, at |-> <<0, 0>>]

GeometryIdle ==
  /\ geoRev = "part001"
  /\ geoElem = "barcode"
  /\ geoGrid = <<0, 0>>
  /\ geoOut = NotPlaced

\* the placement of one point of one element
InitGeometry ==
  /\ bcRev = "server_1"
  /\ bcData = JsNull
  /\ bcOut = NotCalled
  /\ geoRev \in GeometryRevisions
  /\ geoElem \in Elements(geoRev)
  /\ geoGrid \in Grid
  /\ geoOut = NotPlaced
  /\ Base64Idle
  /\ config = Configuration(geoRev)
  /\ rev = "server_1"
  /\ body = Idle(Body(Order(JsNull, JsNull, NoProducts, JsNull, JsNull), Label("missing", FALSE, 0)))
  /\ pc = Idle("idle")
  /\ merged = Idle(<<>>)
  /\ products = Idle(<<>>)
  /\ idx = Idle(0)
  /\ copy = Idle(0)
  /\ sticker = Idle(NoSticker)
  /\ collected = Idle(<<>>)
  /\ genLog = Idle(<<>>)
  /\ renders = Idle(<<>>)
  /\ error = Idle("")
  /\ response = Idle(NoResponse)

DrawElement ==
  /\ geoElem \in {"qr", "sku", "barcode"}
  /\ ~geoOut.placed
  /\ ~geoOut.threw
  /\ geoOut' = [placed |-> TRUE, threw |-> FALSE, at |-> PlacedAt(geoRev, geoElem, geoGrid)]
  /\ UNCHANGED <<barcodeVars, base64Vars, geoRev, geoElem, geoGrid, config, inputVars, packVars>>

rotatePageToLandscape ==
  /\ geoElem = "page"
  /\ ~geoOut.placed
  /\ ~geoOut.threw
  /\ \E threw \in DrawPageThrows(geoRev) :
       geoOut' = IF threw
                 THEN [placed |-> FALSE, threw |-> TRUE, at |-> <<0, 0>>]
                 ELSE [placed |-> TRUE, threw |-> FALSE, at |-> PageImage(geoRev, geoGrid)]
  /\ UNCHANGED <<barcodeVars, base64Vars, geoRev, geoElem, geoGrid, config, inputVars, packVars>>

\* a centred block is laid out: at is <<top, bottom>> of the block, in page units
CentreBlock ==
  /\ geoElem \in BlockElements
  /\ ~geoOut.placed
  /\ geoOut' = [placed |-> TRUE, threw |-> FALSE,
                at |-> <<VerticalBlock(geoRev, geoElem).top, VerticalBlock(geoRev, geoElem).bottom>>]
  /\ UNCHANGED <<barcodeVars, base64Vars, geoRev, geoElem, geoGrid, config, inputVars, packVars>>

NextGeometry == DrawElement \/ rotatePageToLandscape \/ CentreBlock

SpecGeometry == InitGeometry /\ [][NextGeometry]_vars

\* generateBarcode alone, on every input
InitBarcode ==
  /\ bcRev \in BarcodeRevisions
  /\ bcData \in BarcodeInputs
  /\ bcOut = NotCalled
  /\ GeometryIdle
  /\ Base64Idle
  /\ config = Configuration("server_1")
  /\ rev = "server_1"
  /\ body = Idle(Body(Order(JsNull, JsNull, NoProducts, JsNull, JsNull), Label("missing", FALSE, 0)))
  /\ pc = Idle("idle")
  /\ merged = Idle(<<>>)
  /\ products = Idle(<<>>)
  /\ idx = Idle(0)
  /\ copy = Idle(0)
  /\ sticker = Idle(NoSticker)
  /\ collected = Idle(<<>>)
  /\ genLog = Idle(<<>>)
  /\ renders = Idle(<<>>)
  /\ error = Idle("")
  /\ response = Idle(NoResponse)

CallGenerateBarcode ==
  /\ ~bcOut.called
  /\ bcOut' = generateBarcode(bcRev, bcData)
  /\ UNCHANGED <<bcRev, bcData, base64Vars, geometryVars, config, inputVars, packVars>>

NextBarcode == CallGenerateBarcode

SpecBarcode == InitBarcode /\ [][NextBarcode]_vars

\* base64ToBuffer alone, on every input
InitBase64 ==
  /\ b64Bytes \in ByteStrings
  /\ b64Form \in Forms
  /\ b64Out = NotDecoded
  /\ bcRev = "server_1"
  /\ bcData = JsNull
  /\ bcOut = NotCalled
  /\ GeometryIdle
  /\ config = Configuration("server_1")
  /\ rev = "server_1"
  /\ body = Idle(Body(Order(JsNull, JsNull, NoProducts, JsNull, JsNull), Label("missing", FALSE, 0)))
  /\ pc = Idle("idle")
  /\ merged = Idle(<<>>)
  /\ products = Idle(<<>>)
  /\ idx = Idle(0)
  /\ copy = Idle(0)
  /\ sticker = Idle(NoSticker)
  /\ collected = Idle(<<>>)
  /\ genLog = Idle(<<>>)
  /\ renders = Idle(<<>>)
  /\ error = Idle("")
  /\ response = Idle(NoResponse)

CallBase64ToBuffer ==
  LET s == Base64Input(b64Bytes, b64Form) IN
  /\ ~b64Out.called
  /\ b64Out' = [called |-> TRUE, stripped |-> StripMarker(s), bytes |-> base64ToBuffer(s)]
  /\ UNCHANGED <<barcodeVars, b64Bytes, b64Form, geometryVars, config, inputVars, packVars>>

NextBase64 == CallBase64ToBuffer

SpecBase64 == InitBase64 /\ [][NextBase64]_vars

Fresh ==
  /\ Base64Idle
  /\ bcRev = "server_1"
  /\ bcData = JsNull
  /\ bcOut = NotCalled
  /\ GeometryIdle
  /\ merged = Idle(<<>>)
  /\ products = Idle(<<>>)
  /\ idx = Idle(0)
  /\ copy = Idle(0)
  /\ sticker = Idle(NoSticker)
  /\ collected = Idle(<<>>)
  /\ genLog = Idle(<<>>)
  /\ renders = Idle(<<>>)
  /\ error = Idle("")
  /\ response = Idle(NoResponse)

MultiProductRevisions == {"server_1", "part002_1", "part005"}

GoodLabels == {l \in Labels : Loads(l)}

\* one request, a: an assembly order with a label that loads, under a revision that reads
\* the products array; or an edge order with any label, under any revision
Init ==
  /\ Fresh
  /\ \/ /\ rev \in MultiProductRevisions
        /\ \E o \in AssemblyOrders, l \in GoodLabels : body = Idle(Body(o, l))
     \/ /\ rev \in Revisions
        /\ \E o \in EdgeOrders, l \in Labels : body = Idle(Body(o, l))
  /\ config = Configuration(rev)
  /\ pc = [r \in Requests |-> IF r = "a" THEN "recv" ELSE "idle"]

TwinOrders ==
  {o \in EdgeOrders : /\ IsLegacyShape(o)
                      /\ Truthy(o.order_id)
                      /\ o.marketplace \in {JsStr(Uzum), JsStr(Yandex)}}

\* two requests in flight: a is an order of the legacy shape, b is its twin
TwinLabels == {Label("string", TRUE, 1), Label("buffer", TRUE, MaxMarketPages)}

InitTwin ==
  /\ Fresh
  /\ rev \in Revisions
  /\ \E o \in TwinOrders, l \in TwinLabels :
       body = [r \in Requests |-> IF r = "a" THEN Body(o, l) ELSE Body(Twin(o), l)]
  /\ config = Configuration(rev)
  /\ pc = Idle("recv")

\* the same order with its marketplace in capitals between blanks
CaseTwin(o) ==
  [o EXCEPT !.marketplace = JsStr(<<" ">> \o ToUpperCase(o.marketplace.s) \o <<"\t">>)]

CaseOrders ==
  {Order(JsStr(OrderA1), JsStr(m), ProductsArray(<<ProductAt(1, NoQuantity)>>),
         JsStr(Scenario13), LegacyCode) : m \in {Uzum, Yandex, DefaultMarket}}

\* two requests in flight whose marketplace values differ in case and blanks alone
InitCase ==
  /\ Fresh
  /\ rev \in Revisions
  /\ \E o \in CaseOrders, l \in TwinLabels :
       body = [r \in Requests |-> IF r = "a" THEN Body(o, l) ELSE Body(CaseTwin(o), l)]
  /\ config = Configuration(rev)
  /\ pc = Idle("recv")

\* two different orders, for two different marketplaces, with labels of different length
PairOrders ==
  [a |-> Body(Order(JsStr(OrderA1), JsStr(Uzum), ProductsArray(<<ProductAt(1, NoQuantity)>>),
                    JsStr(Scenario13), LegacyCode),
              Label("string", TRUE, 1)),
   b |-> Body(Order(JsStr(<<"B", "2">>), JsStr(Yandex), ProductsArray(<<ProductAt(2, NoQuantity)>>),
                    JsStr(FallbackQR), JsNull),
              Label("buffer", TRUE, MaxMarketPages))]

\* two requests in flight on the one generator, each step of one interleaved with the
\* steps of the other
InitPair ==
  /\ Fresh
  /\ rev \in Revisions
  /\ body = PairOrders
  /\ config = Configuration(rev)
  /\ pc = Idle("recv")

Step(r) ==
  \/ Validate(r)
  \/ CheckLabel(r)
  \/ LoadLabel(r)
  \/ CopyMarketPages(r)
  \/ PrepareProducts(r)
  \/ Generate(r)
  \/ AwaitAll(r)
  \/ FinishSticker(r)
  \/ Rotate(r)
  \/ Embed(r)
  \/ CopySticker(r)
  \/ MergeCollected(r)
  \/ Save(r)
  \/ Respond(r)

Next == \E r \in Requests : Step(r)

Spec == Init /\ [][Next]_vars

SpecTwin == InitTwin /\ [][Next]_vars

SpecCase == InitCase /\ [][Next]_vars

SpecPair == InitPair /\ [][Next]_vars

\* one request, a, with an order of one product and a label that loads
InitLive ==
  /\ Fresh
  /\ rev \in Revisions
  /\ \E o \in CaseOrders, l \in TwinLabels : body = Idle(Body(o, l))
  /\ config = Configuration(rev)
  /\ pc = [r \in Requests |-> IF r = "a" THEN "recv" ELSE "idle"]

\* the event loop runs every continuation that is ready: a request that can take a step
\* takes one
SpecLive == InitLive /\ [][Next]_vars /\ \A r \in Requests : WF_vars(Step(r))

(***************************************************************************)
(* The HTTP handler POST /generate-from-order                              *)
(***************************************************************************)
\* part_000 holds the class alone and part_004 registers /generate-label only
HasFromOrder(r) == r \in {"server_1", "server_2", "part002_1", "part005", "part003"}

\* the checks that answer 400, made before axios.get; url says whether the body carries
\* marketplaceLabelUrl
FromOrderRejects(r, o, url) ==
  \/ ~url
  \/ CASE r = "server_1" ->
            \/ ~Truthy(o.order_id)
            \/ (o.products.t = "absent" /\ ~Truthy(o.product_barcode))
            \/ ~Truthy(o.marketplace)
       [] r = "server_2" ->
            \/ ~Truthy(o.order_id)
            \/ (o.products.t = "absent" /\ ~Truthy(o.product_barcode))
            \/ ~Truthy(o.marketplace)
       [] r = "part002_1" ->
            \/ ~Truthy(o.order_id)
            \/ (o.products.t = "absent" /\ ~Truthy(o.product_barcode))
       [] r = "part005" ->
            (~Truthy(o.order_id) \/ ~HasProductList(o)) /\ ~Truthy(o.product_barcode)
       [] OTHER -> FALSE

\* what axios.get resolves to, wrapped by Buffer.from(response.data)
FetchedLabels == {Label("buffer", TRUE, MaxMarketPages), Label("buffer", FALSE, 0)}

\* the handler's checks, up to the remote fetch
ValidateFromOrder(r) ==
  /\ pc[r] = "recvFromOrder"
  /\ IF FromOrderRejects(rev, body[r].orderData, TRUE)
     THEN /\ response' = Set(response, r, Response(400, FALSE, <<>>, "Missing required fields"))
          /\ pc' = Set(pc, r, "done")
     ELSE /\ pc' = Set(pc, r, "fetch")
          /\ UNCHANGED response
  /\ UNCHANGED <<barcodeVars, base64Vars, geometryVars, config, inputVars, merged, products, idx, copy, sticker, collected,
                 genLog, renders, error>>

\* await axios.get(marketplaceLabelUrl, ...): the bytes become marketplaceLabel, or the
\* rejection reaches the catch block
FetchLabel(r) ==
  /\ pc[r] = "fetch"
  /\ \/ /\ \E l \in FetchedLabels : body' = Set(body, r, Body(body[r].orderData, l))
        /\ pc' = Set(pc, r, FirstStep(rev))
        /\ UNCHANGED error
     \/ /\ Throw(r, "Request failed")
        /\ UNCHANGED body
  /\ UNCHANGED <<barcodeVars, base64Vars, geometryVars, config, rev, merged, products, idx, copy, sticker, collected,
                 genLog, renders, response>>

\* orders that pass or fail each of the checks on order_id, products, product_barcode and
\* marketplace
EndpointOrders ==
  {Order(id, m, ps, b, LegacyCode) :
     id \in {JsStr(OrderA1), JsNull},
     m \in {JsStr(Uzum), JsNull},
     ps \in {NoProducts, ProductsArray(<<ProductAt(1, NoQuantity)>>)},
     b \in {JsNull, JsStr(Scenario13)}}

\* the same orderData sent to both endpoints: a to /generate-label with the label in the
\* body, b to /generate-from-order with a marketplaceLabelUrl
InitEndpoints ==
  /\ Fresh
  /\ rev \in Revisions
  /\ \E o \in EndpointOrders :
       body = [r \in Requests |-> IF r = "a" THEN Body(o, Label("buffer", TRUE, 1))
                                  ELSE Body(o, Label("missing", FALSE, 0))]
  /\ config = Configuration(rev)
  /\ pc = [r \in Requests |-> IF r = "a" THEN "recv"
                              ELSE IF HasFromOrder(rev) THEN "recvFromOrder" ELSE "idle"]

NextEndpoints == \E r \in Requests : Step(r) \/ ValidateFromOrder(r) \/ FetchLabel(r)

SpecEndpoints == InitEndpoints /\ [][NextEndpoints]_vars

(***************************************************************************)
(* Claims                                                                  *)
(***************************************************************************)
Returned(r) == pc[r] = "returned" \/ (pc[r] = "done" /\ response[r].status = 200)

LabelOf(r) == body[r].marketplaceLabel

OrderOf(r) == body[r].orderData

Stickers(pages) == SelectSeq(pages, LAMBDA g : g.kind = "sticker")

StickersOf(pages, i) == SelectSeq(pages, LAMBDA g : g.kind = "sticker" /\ g.product = i)

Markets(pages) == SelectSeq(pages, LAMBDA g : g.kind = "market")

\* the order's products as the data model names them: the products array, or the
\* legacy fields as a one-element list
OrderProducts(o) ==
  IF HasProductList(o) THEN o.products.items
  ELSE IF Truthy(o.product_barcode) THEN <<LegacyProduct(o, NoQuantity)>> ELSE <<>>

\* a quantity >= 1 named by the caller, 2 otherwise
StatedQuantity(q) == IF q.has /\ q.n >= 1 THEN q.n ELSE 2

RECURSIVE SumQuantities(_)
SumQuantities(ps) ==
  IF ps = <<>> THEN 0 ELSE StatedQuantity(Head(ps).quantity) + SumQuantities(Tail(ps))

\* C1: the document createCompleteLabelPack returns has m + (sum of the products'
\* quantities) pages, m the page count of the marketplace document (revisions of
\* server.js, part_002 and part_005 that read the products array).
C1_PageCount ==
  \A r \in Requests :
    (rev \in MultiProductRevisions /\ Returned(r))
      => Len(merged[r]) = LabelOf(r).pages + SumQuantities(OrderProducts(OrderOf(r)))

\* C2: in every state of the merged document, the marketplace pages come first in their
\* original order, no sticker page is present before all marketplace pages are, sticker
\* pages are in product order, and a later product's page is present only after every
\* copy of the earlier products.
C2_PageOrder ==
  \A r \in Requests :
    LET g == merged[r]
        m == Len(Markets(g))
    IN /\ \A i \in 1..Len(g) : (i <= m) = (g[i].kind = "market")
       /\ \A i \in 1..m : g[i].index = i
       /\ Stickers(g) # <<>> => m = LabelOf(r).pages
       /\ \A i, j \in 1..Len(g) :
            (i < j /\ g[i].kind = "sticker") => g[i].product <= g[j].product
       /\ \A i \in 1..Len(g) :
            (g[i].kind = "sticker" /\ ~SingleProduct(rev))
              => \A k \in 1..(g[i].product - 1) :
                   Len(StickersOf(g, k)) = Copies(rev, products[r][k])

\* C2 witness: a returned document with two marketplace pages and stickers of two products
C2_Witness ==
  \E r \in Requests :
    /\ Returned(r)
    /\ LabelOf(r).pages = 2
    /\ StickersOf(merged[r], 1) # <<>>
    /\ StickersOf(merged[r], 2) # <<>>

\* C5: in a returned document, a product whose quantity is absent, zero or negative has
\* exactly 2 sticker pages, whatever the other products' quantities.
C5_DefaultTwoCopies ==
  \A r \in Requests :
    (rev \in MultiProductRevisions /\ Returned(r))
      => \A i \in 1..Len(products[r]) :
           (~products[r][i].quantity.has \/ products[r][i].quantity.n <= 0)
             => Len(StickersOf(merged[r], i)) = 2

\* C5 witness: a returned document of a revision that reads quantity, whose first product
\* has a negative quantity and whose second product has quantity 1
C5_Witness ==
  \E r \in Requests :
    /\ rev = "part002_1"
    /\ Returned(r)
    /\ Len(products[r]) = 2
    /\ products[r][1].quantity = Quantity(-1)
    /\ products[r][2].quantity = Quantity(1)
    /\ Len(StickersOf(merged[r], 1)) = 2
    /\ Len(StickersOf(merged[r], 2)) = 1

\* what a page shows, without the bookkeeping of which render produced it
Shown(pages) == [i \in 1..Len(pages) |-> [kind |-> pages[i].kind, index |-> pages[i].index,
                                          product |-> pages[i].product,
                                          content |-> pages[i].content]]

\* C6: an order of the legacy shape and the same order with products =
\* [{product_barcode, product_code}] yield the same final page sequence.
C6_LegacyAsOneProduct ==
  (/\ IsLegacyShape(OrderOf("a"))
   /\ OrderOf("b") = Twin(OrderOf("a"))
   /\ Returned("a")
   /\ Returned("b"))
    => Shown(merged["a"]) = Shown(merged["b"])

BadLabel(l) == ~(l.t \in {"string", "buffer"} /\ l.parseable)

LabelErrors ==
  {"Invalid marketplace label format", "Failed to parse PDF document",
   "pdf must be of type string or Uint8Array or ArrayBuffer"}

\* C7: a marketplace label that is neither a string nor a buffer, or that does not parse,
\* never yields a document: nothing is merged, nothing is returned, and when
\* createCompleteLabelPack throws for it the error names the label.
C7_BadLabelFails ==
  \A r \in Requests :
    BadLabel(LabelOf(r))
      => /\ merged[r] = <<>>
         /\ pc[r] \notin {"market", "prepare", "copy", "merge", "save", "returned"}
         /\ ~response[r].hasPdf
         /\ response[r].status # 200
         /\ (pc[r] = "threw" /\ renders[r] = <<>>) => error[r] \in LabelErrors

\* C7 witness: a request answered 500 because its label is neither a string nor a buffer
C7_Witness ==
  \E r \in Requests :
    /\ LabelOf(r).t = "other"
    /\ pc[r] = "done"
    /\ response[r] = Response(500, FALSE, <<>>, "Invalid marketplace label format")

\* C8: for a label of the wrong type or that does not parse, no code generator and no
\* sticker renderer is ever started.
C8_FailsBeforeRendering ==
  \A r \in Requests : BadLabel(LabelOf(r)) => (genLog[r] = <<>> /\ renders[r] = <<>>)

RendersOf(r, i) == SelectSeq(renders[r], LAMBDA k : k = i)

\* C9: in a returned document every product was rendered exactly once, and all its
\* sticker pages are copies of that one rendered page.
C9_RenderedOncePerProduct ==
  \A r \in Requests :
    (rev \in MultiProductRevisions /\ Returned(r))
      => \A i \in 1..Len(products[r]) :
           /\ Len(RendersOf(r, i)) = 1
           /\ \A g, h \in {merged[r][k] : k \in 1..Len(merged[r])} :
                (g.kind = "sticker" /\ h.kind = "sticker" /\ g.product = i /\ h.product = i)
                  => g = h

C11_DefaultMarketplaceAssembled ==
  \A r \in Requests :
    (/\ rev \in {"server_1", "server_2"}
     /\ OrderOf(r) = DefaultOrder
     /\ Loads(LabelOf(r))
     /\ LabelOf(r).pages = 1)
      => /\ error[r] # "Invalid marketplace"
         /\ Returned(r)
              => /\ Len(merged[r]) = 3
                 /\ \A i \in 2..3 : /\ merged[r][i].kind = "sticker"
                                     /\ merged[r][i].content.variant = "both"

GeneratorKinds(r) == {genLog[r][k].kind : k \in 1..Len(genLog[r])}

\* C13: in the classes that select a layout (server.js, both classes) or draw both codes
\* (part_002, first class), the renderer called for a valid marketplace does not fail on
\* its own code, and the sticker it returns shows the QR code alone (uzum, QR generator
\* alone invoked), the barcode alone (yandex, barcode generator alone invoked), or both.
C13_VariantGenerators ==
  \A r \in Requests :
    rev \in {"server_1", "server_2", "part002_1"}
      => /\ error[r] # "useBarcode is not defined"
         /\ sticker[r].has
              => LET c == sticker[r].content IN
                 /\ c.variant = "uzum"
                      => (GeneratorKinds(r) = {"QR"} /\ c.qr # <<>> /\ c.bars = <<>>)
                 /\ c.variant = "yandex"
                      => (GeneratorKinds(r) = {"barcode"} /\ c.bars # <<>> /\ c.qr = <<>>)
                 /\ c.variant = "both"
                      => (GeneratorKinds(r) = {"QR", "barcode"} /\ c.bars # <<>> /\ c.qr # <<>>)

(***************************************************************************)
(* Claims about placement, under SpecGeometry                              *)
(***************************************************************************)
\* C14: every point of a rectangle drawn after translate, rotate by 90 degrees (and
\* counter-translate) lands inside the element's intended bounding box and inside the
\* canvas.
C14_RotatedInsideBox ==
  LET q == Placement(geoRev, geoElem) IN
  (geoElem \in {"sku", "barcode"} /\ geoOut.placed /\ q.deg = 90)
    => (Inside(geoOut.at, q.box) /\ Inside(geoOut.at, q.canvas))

\* createCompleteLabelPack was called for the request
Started(r) == pc[r] \notin {"idle", "recv"} /\ response[r].status # 400

\* C18: the handlers of server.js, part_002 and part_005 call createCompleteLabelPack
\* only for an order with a non-empty order_id and at least one resolvable product (a
\* non-empty products list or a product_barcode); a request answered with 400 has
\* started nothing.
C18_ValidatedUpstream ==
  \A r \in Requests :
    rev \in {"server_1", "server_2", "part002_1", "part005"}
      => /\ Started(r)
              => /\ Truthy(OrderOf(r).order_id)
                 /\ HasProductList(OrderOf(r)) \/ Truthy(OrderOf(r).product_barcode)
         /\ response[r].status = 400
              => (merged[r] = <<>> /\ renders[r] = <<>> /\ genLog[r] = <<>>)

\* C19: a document returned by createCompleteLabelPack (server.js, part_005) has at least
\* one sticker page, the sticker pages come after the marketplace pages, and a product
\* without a barcode has its sticker pages, drawn with the fallback value in its code.
C19_AtLeastOneSticker ==
  \A r \in Requests :
    (rev \in {"server_1", "part005"} /\ Returned(r))
      => /\ Stickers(merged[r]) # <<>>
         /\ \A j, k \in 1..Len(merged[r]) :
              (j < k /\ merged[r][k].kind = "market") => merged[r][j].kind = "market"
         /\ \A i \in 1..Len(products[r]) :
              ~Truthy(products[r][i].product_barcode)
                => /\ StickersOf(merged[r], i) # <<>>
                   /\ \A k \in 1..Len(merged[r]) :
                        (merged[r][k].kind = "sticker" /\ merged[r][k].product = i)
                          => (merged[r][k].content.qr # <<>> \/ merged[r][k].content.bars # <<>>)

RECURSIVE Repeat(_, _)
Repeat(x, n) == IF n <= 0 THEN <<>> ELSE <<x>> \o Repeat(x, n - 1)

RECURSIVE AloneStickers(_, _, _, _)
AloneStickers(r, o, ps, i) ==
  IF i > Len(ps) THEN <<>>
  ELSE Repeat([kind |-> "sticker", index |-> 0, product |-> i,
               content |-> StickerContent(r, o, ps[i])], Copies(r, ps[i]))
         \o AloneStickers(r, o, ps, i + 1)

\* the pages of the document a request yields when no other request is in flight: the
\* label's pages, then each product's copies
AloneDocument(r, b) ==
  LET indices == PageIndices(b.marketplaceLabel) IN
  [k \in 1..Len(indices) |->
     [kind |-> "market", index |-> indices[k], product |-> 0, content |-> NoContent]]
    \o AloneStickers(r, b.orderData, ProductsToProcess(r, b.orderData), 1)

\* C20: the generator's configuration stays what the constructor made it, and a request
\* that returns a document while another request is in flight returns the document it
\* returns when run alone.
C20_RequestsIsolated ==
  /\ config = Configuration(rev)
  /\ \A r \in Requests : Returned(r) => Shown(merged[r]) = AloneDocument(rev, body[r])

C20_Witness ==
  /\ rev = "server_1"
  /\ Returned("a")
  /\ Returned("b")
  /\ Stickers(merged["a"]) # <<>>
  /\ Stickers(merged["b"]) # <<>>
  /\ Shown(merged["a"]) # Shown(merged["b"])

\* s holds sub as a run of consecutive characters
Contains(s, sub) == \E i \in 1..(Len(s) - Len(sub) + 1) : SubSeq(s, i, i + Len(sub) - 1) = sub

\* C17: when an encoder throws inside a generator, the request fails without a document,
\* and its error names the failing component (QR or barcode) and holds the encoder's own
\* message.
C17_EncoderErrorTagged ==
  \A r \in Requests : \A k \in 1..Len(genLog[r]) :
    genLog[r][k].threw # ""
      => /\ ~Returned(r)
         /\ pc[r] \in {"threw", "done"}
         /\ pc[r] = "done" => (response[r].status = 500 /\ ~response[r].hasPdf)
         /\ Contains(error[r], genLog[r][k].threw)
         /\ IF genLog[r][k].kind = "QR"
            THEN Contains(error[r], "QR")
            ELSE Contains(error[r], "Barcode") \/ Contains(error[r], "barcode")

\* C16: every sticker page appended to the merged document is exactly 58 x 2.83465 by
\* 40 x 2.83465 points and carries one sticker, in every revision and every layout.
C16_StickerPageSize ==
  \A r \in Requests : \A k \in 1..Len(merged[r]) :
    merged[r][k].kind = "sticker"
      => /\ merged[r][k].size = <<58 * Mm, 40 * Mm>>
         /\ merged[r][k].stickers = 1

\* C22: for each vertically centred block of part_002 (first class) and server.js (both
\* classes), the height summed for centring is the distance from the top of the block's
\* first element to the bottom of its last, and the space above the block equals the
\* space below it.
C22_CentredBlockExtent ==
  (geoElem \in BlockElements /\ geoOut.placed)
    => /\ geoOut.at[2] - geoOut.at[1] = VerticalBlock(geoRev, geoElem).summed
       /\ geoOut.at[1] = Canvas(geoRev).h - geoOut.at[2]

\* C23: in the layout with both codes (part_000, part_004, part_002 second class) the
\* band between the QR block and the barcode block is wider than zero, every point of
\* the SKU text box lands inside the band, and the box overlaps neither code image.
C23_SkuInsideMiddleBand ==
  (geoRev \in {"part000", "part004", "part002_2"} /\ geoElem = "sku" /\ geoOut.placed)
    => /\ Placement(geoRev, "sku").box.w > 0
       /\ Inside(geoOut.at, Placement(geoRev, "sku").box)
       /\ ~Overlap(Landed(geoRev, "sku"), Landed(geoRev, "qr"))
       /\ ~Overlap(Landed(geoRev, "sku"), Landed(geoRev, "barcode"))

\* C24: in part_000's renderer the two generators settle in either order; the drawing
\* starts, and a page is returned, only after both have resolved; and if either has
\* thrown the renderer returns no page and the call fails.
C24_DrawsAfterBothGenerators ==
  \A r \in Requests :
    rev = "part000"
      => /\ (pc[r] = "finish" \/ sticker[r].has)
              => \A k \in 1..Len(genLog[r]) : genLog[r][k].settled > 0 /\ genLog[r][k].threw = ""
         /\ (\E k \in 1..Len(genLog[r]) : genLog[r][k].threw # "")
              => (~sticker[r].has /\ pc[r] = "threw" /\ Stickers(merged[r]) = <<>>)

\* the barcode generator settled before the QR generator, and the page was returned
C24_Witness ==
  /\ rev = "part000"
  /\ sticker["a"].has
  /\ Len(genLog["a"]) = 2
  /\ genLog["a"][1].kind = "QR"
  /\ genLog["a"][2].settled < genLog["a"][1].settled

\* C25: base64ToBuffer returns the encoded bytes for the encoding alone and for the
\* encoding after the marker, the same bytes in both cases; a marker that is not at the
\* very start (a blank stands before it) stays in the string; of two markers at the start the first alone goes.
C25_MarkerStrippedAtStart ==
  LET e == Base64Encode(b64Bytes) IN
  b64Out.called
    => /\ b64Form \in {"bare", "wrapped"}
            => (b64Out.stripped = e /\ b64Out.bytes = b64Bytes /\ b64Out.bytes = base64ToBuffer(e))
       /\ b64Form = "inside" => b64Out.stripped = Base64Input(b64Bytes, "inside")
       /\ b64Form = "twice" => b64Out.stripped = Marker \o e

C25_Witness ==
  /\ b64Out.called
  /\ b64Form = "wrapped"
  /\ Len(b64Bytes) = MaxBytes
  /\ b64Out.bytes = b64Bytes

\* C28: every renderer call that has reached its drawing settles, and every request
\* received by a handler is answered with 200, 400 or 500.
C28_EveryRequestAnswered ==
  \A r \in Requests :
    /\ (pc[r] = "finish") ~> (pc[r] \notin {"finish", "hung"})
    /\ (HasHandler(rev) /\ pc[r] = "recv")
         ~> (pc[r] = "done" /\ response[r].status \in {200, 400, 500})

\* C29: on a QR-only (uzum) sticker of server.js the number printed below the QR code is
\* the string encoded in the QR code, the fallback value when product_barcode is missing.
C29_UzumNumberIsQrPayload ==
  \A r \in Requests : \A k \in 1..Len(merged[r]) :
    (rev = "server_1" /\ merged[r][k].kind = "sticker" /\ merged[r][k].content.variant = "uzum")
      => /\ merged[r][k].content.qr # <<>>
         /\ merged[r][k].content.digits = merged[r][k].content.qr
         /\ ~Truthy(products[r][merged[r][k].product].product_barcode)
              => merged[r][k].content.qr = FallbackQR

\* a returned uzum document with the sticker of a product that has no barcode
C29_Witness ==
  /\ rev = "server_1"
  /\ Returned("a")
  /\ \E k \in 1..Len(merged["a"]) :
       /\ merged["a"][k].kind = "sticker"
       /\ merged["a"][k].content.variant = "uzum"
       /\ ~Truthy(products["a"][merged["a"][k].product].product_barcode)
       /\ merged["a"][k].content.digits = FallbackQR

\* C21: in the layouts that draw both codes (part_000, part_001, part_002 first class)
\* every point of the QR image and of the barcode image lands on the canvas, and the two
\* images share no inner point.
C21_CodesDisjointOnCanvas ==
  (geoRev \in {"part000", "part001", "part002_1"} /\ geoElem \in {"qr", "barcode"} /\ geoOut.placed)
    => /\ Inside(geoOut.at, Placement(geoRev, geoElem).canvas)
       /\ ~Overlap(Landed(geoRev, "qr"), Landed(geoRev, "barcode"))

\* C15: rotatePageToLandscape completes; the page it adds is 58 mm x 40 mm; the source
\* page is drawn turned by 90 degrees at its own size (its width along the target's
\* height, its height along the target's width); and every point of the source page
\* lands inside the target page.
C15_LandscapeInsideTarget ==
  LET d == PageDrawing(geoRev) IN
  (geoElem = "page" /\ (geoOut.placed \/ geoOut.threw))
    => /\ geoOut.placed
       /\ d.target = Rect(0, 0, 58 * Mm, 40 * Mm)
       /\ d.deg \in {90, 270}
       /\ d.width = d.source.w
       /\ d.height = d.source.h
       /\ Inside(geoOut.at, d.target)

(***************************************************************************)
(* Claims about generateBarcode, under SpecBarcode                         *)
(***************************************************************************)
\* C26: the digits printed under the bars agree with the payload given to the encoder:
\* at least 12 characters are printed and the first 12 are the first 12 of the payload,
\* for every product_barcode; so the placeholder is printed exactly when it is encoded.
C26_PrintedDigitsMatchBars ==
  LET printed == DisplayedBarcode(bcRev, [product_barcode |-> bcData]) IN
  bcOut.called
    => /\ Len(printed) >= 12
       /\ SubSeq(printed, 1, 12) = SubSeq(bcOut.payload, 1, 12)

\* C27: for every input the payload given to the EAN13 encoder is exactly 12 decimal
\* digits; an input of 12 digits is passed as it is; and exactly one of the three cases
\* (12 digits, 13 digits, invalid) applies.
C27_PayloadTwelveDigits ==
  LET clean == CleanBarcodeData(bcData)
      is12 == Len(clean) = 12 /\ TestDigits(clean)
      is13 == Len(clean) = 13 /\ TestDigits(clean)
      invalid == InvalidEAN13Data(clean)
  IN bcOut.called
       => /\ Len(bcOut.payload) = 12
          /\ TestDigits(bcOut.payload)
          /\ is12 => bcOut.payload = clean
          /\ is12 \/ is13 \/ invalid
          /\ ~(is12 /\ is13) /\ ~(is12 /\ invalid) /\ ~(is13 /\ invalid)

\* C3: for an input that is 13 digits after whitespace removal, the payload given to the
\* EAN13 encoder is the first 12 digits of the input.
C3_ThirteenDigitsTruncated ==
  LET clean == CleanBarcodeData(bcData) IN
  (bcOut.called /\ Len(clean) = 13 /\ TestDigits(clean))
    => bcOut.payload = SubSeq(clean, 1, 12)

\* C4: for an input that, whitespace removed, is not all digits or not 12 or 13
\* characters long (the empty string, null and undefined among them), the encoder payload
\* is the placeholder 123456789012 and the call completes without an error.
C4_InvalidUsesPlaceholder ==
  LET clean == CleanBarcodeData(bcData) IN
  (bcOut.called /\ (~TestDigits(clean) \/ Len(clean) \notin {12, 13}))
    => (bcOut.payload = Placeholder12 /\ bcOut.result = "png")


\* C30: /generate-label and /generate-from-order reject the same orderData, and
\* /generate-from-order starts no fetch for an orderData that /generate-label's checks on
\* order_id, products / product_barcode and marketplace reject
C30_EndpointsRejectAlike ==
  HasFromOrder(rev) =>
    /\ (pc["a"] # "recv" /\ pc["b"] # "recvFromOrder") =>
         (response["a"].status = 400 <=> response["b"].status = 400)
    /\ pc["b"] = "fetch" => ~HandlerRejects(rev, body["a"])

====
